---------------------------- MODULE Spec2Model ----------------------------
(***************************************************************************)
(* Model of the dataconverter of pynxtools (nexusparser):                  *)
(*   readers/transmission/reader.py  - the Perkin Elmer transmission       *)
(*                                     reader (parse_asc, read_detectors,  *)
(*                                     TransmissionReader.read)            *)
(*   convert.py                      - generate_template_from_nxdl,        *)
(*                                     get_names_of_all_readers, convert   *)
(*                                                                         *)
(* Text is modelled by what the code does with it:                         *)
(*   - a line of an .asc file is the sequence of its whitespace separated  *)
(*     words (str.split()), a word is the sequence of its '/' separated    *)
(*     parts (str.split('/')), a part is [num |-> n] when float() accepts  *)
(*     it (with value n) and [txt |-> s] otherwise;                        *)
(*   - a file system path is a sequence of tokens, the separator "/" and   *)
(*     the dot "." being tokens of their own;                              *)
(*   - a template key is a string, built by concatenation as the code      *)
(*     builds it.                                                          *)
(* Python's None is the string "None"; a raised exception is the result    *)
(* [ok |-> FALSE].                                                         *)
(***************************************************************************)
EXTENDS Integers, Sequences, FiniteSets, TLC

VARIABLES
    \* parse_asc (reader.py 176-216)
    asc_pc, asc_map, asc_file, asc_i, asc_metadata, asc_template, asc_warnings,
    \* TransmissionReader.read (reader.py 252-289)
    pc, fs, file_paths, template0, template, sorted_paths, log,
    \* generate_template_from_nxdl (convert.py 43-76)
    walk_pc, tree, stack, acc,
    \* get_names_of_all_readers (convert.py 89-99)
    rd_pc, dirname, subdirs, files, all_readers,
    \* convert (convert.py 132-161)
    cv_pc, nxdl, generate_template, input_file, nxdl_name, cv_data, trace

ascVars  == <<asc_pc, asc_map, asc_file, asc_i, asc_metadata, asc_template, asc_warnings>>
readVars == <<pc, fs, file_paths, template0, template, sorted_paths, log>>
walkVars == <<walk_pc, tree, stack, acc>>
rdVars   == <<rd_pc, dirname, subdirs, files, all_readers>>
cvVars   == <<cv_pc, nxdl, generate_template, input_file, nxdl_name, cv_data, trace>>
vars     == <<ascVars, readVars, walkVars, rdVars, cvVars>>

-----------------------------------------------------------------------------
(* Python values and dictionaries *)

None == "None"

Raise == [ok |-> FALSE]
Return(v) == [ok |-> TRUE, val |-> v]

EmptyDict == <<>>

\* dict.update(other): keys are added or overwritten, never removed
update(t, u) ==
    [k \in (DOMAIN t) \cup (DOMAIN u) |-> IF k \in DOMAIN u THEN u[k] ELSE t[k]]

\* template[key] = value
setitem(t, key, value) == update(t, key :> value)

Last(s) == s[Len(s)]

RECURSIVE Reverse(_)
Reverse(s) == IF s = <<>> THEN <<>> ELSE Append(Reverse(Tail(s)), Head(s))

-----------------------------------------------------------------------------
(* Text of an .asc file *)

Num(n) == [num |-> n]
Txt(s) == [txt |-> s]
IsNum(part) == "num" \in DOMAIN part

\* a word without '/' holding one part
W(part) == <<part>>

\* float(x) of a part: the number, or ValueError
float(part) == IF IsNum(part) THEN Return(part.num) ELSE Raise

\* float(x) of a whole word (no split on '/'): a word with a '/' is no number
float_word(word) == IF Len(word) = 1 THEN float(word[1]) ELSE Raise


\* list[i] with Python's 0-based index i >= 0; IndexError when out of range
InRange(list, i) == i < Len(list)
getitem(list, i) == list[i + 1]

-----------------------------------------------------------------------------
(* metadata_parsers (mpars): imported by reader.py, its source is not part  *)
(* of the files modelled here.  A transform is applied to the full         *)
(* metadata list and its return value is used; the value is kept symbolic. *)

MIN_WAVELENGTH == 190
MAX_WAVELENGTH == 3350

mpars_call(fn, metadata) == [call |-> fn, arg |-> metadata]

-----------------------------------------------------------------------------
(* reader.py: module constants *)

IntRule(n)   == [int |-> n]
StrRule(s)   == [str |-> s]
FnRule(f)    == [fn |-> f]
OtherRule(d) == [other |-> d]

Entry(path, val) == [path |-> path, val |-> val]

\* METADATA_MAP as the ordered list of its items (dict insertion order)
METADATA_MAP == <<
    Entry("/ENTRY[entry]/SAMPLE[sample]/name", IntRule(8)),
    Entry("/ENTRY[entry]/start_time", FnRule("read_start_date")),
    Entry("/ENTRY[entry]/instrument/sample_attenuator/attenuator_transmission",
          FnRule("read_sample_attenuator")),
    Entry("/ENTRY[entry]/instrument/ref_attenuator/attenuator_transmission",
          FnRule("read_ref_attenuator")),
    Entry("/ENTRY[entry]/instrument/spectrometer/GRATING[grating]/wavelength_range",
          FnRule("read_uv_monochromator_range")),
    Entry("/ENTRY[entry]/instrument/spectrometer/GRATING[grating1]/wavelength_range",
          FnRule("read_visir_monochromator_range")),
    Entry("/ENTRY[entry]/instrument/SOURCE[source]/type", StrRule("D2")),
    Entry("/ENTRY[entry]/instrument/SOURCE[source]/wavelength_range",
          FnRule("get_d2_range")),
    Entry("/ENTRY[entry]/instrument/SOURCE[source1]/type", StrRule("halogen")),
    Entry("/ENTRY[entry]/instrument/SOURCE[source1]/wavelength_range",
          FnRule("get_halogen_range")) >>

-----------------------------------------------------------------------------
(* reader.py: data_to_template, parse_detector_line,                       *)
(* convert_detector_to_template, read_detectors                            *)

\* data: the rows of the DataFrame, each <<index, value, value, ...>>.
\* data.values[:, 0] is an IndexError when there is no value column.
data_to_template(data) ==
    IF \E r \in 1..Len(data) : Len(data[r]) < 2 THEN Raise
    ELSE LET index_values == [r \in 1..Len(data) |-> data[r][1]]
             values       == [r \in 1..Len(data) |-> Tail(data[r])]
             t1 == setitem(EmptyDict, "/ENTRY[entry]/data/@signal", "data")
             t2 == setitem(t1, "/ENTRY[entry]/data/@axes", "wavelength")
             t3 == setitem(t2, "/ENTRY[entry]/data/type", "transmission")
             t4 == setitem(t3, "/ENTRY[entry]/data/@signal", "transmission")
             t5 == setitem(t4, "/ENTRY[entry]/data/wavelength", index_values)
             t6 == setitem(t5, "/ENTRY[entry]/instrument/spectrometer/wavelength",
                           index_values)
             t7 == setitem(t6, "/ENTRY[entry]/data/wavelength/@units", "nm")
             t8 == setitem(t7, "/ENTRY[entry]/data/transmission",
                           [r \in 1..Len(data) |-> values[r][1]])
             t9 == setitem(t8, "/ENTRY[entry]/instrument/measured_data", values)
         IN  Return(t9)

\* convert is "id" (the default lambda x: x) or "float"
parse_detector_line(line, convert) ==
    IF convert = "float" /\ \E i \in 1..Len(line) : ~IsNum(Last(line[i]))
    THEN Raise
    ELSE Return([i \in 1..Len(line) |->
                    IF convert = "float" THEN Last(line[i]).num ELSE Last(line[i])])

\* gain is <<>> for None and <<g>> for the value g
detector_path(det_idx) ==
    IF det_idx = 0 THEN "/ENTRY[entry]/instrument/DETECTOR[detector]"
    ELSE "/ENTRY[entry]/instrument/DETECTOR[detector" \o ToString(det_idx) \o "]"

convert_detector_to_template(det_type, slit, time, gain, det_idx, wavelength_range) ==
    LET path == detector_path(det_idx)
        t1 == setitem(EmptyDict, path \o "/type", det_type)
        t2 == setitem(t1, path \o "/response_time", time)
        t3 == IF gain # <<>> THEN setitem(t2, path \o "/gain", gain[1]) ELSE t2
    IN  IF slit = Txt("servo")
        THEN Return(setitem(setitem(t3, path \o "/slit/type", "servo"),
                            path \o "/wavelength_range", wavelength_range))
        ELSE IF ~float(slit).ok THEN Raise
        ELSE LET t4 == setitem(t3, path \o "/slit/type", "fixed")
                 t5 == setitem(t4, path \o "/slit/x_gap", float(slit).val)
                 t6 == setitem(t5, path \o "/slit/x_gap/@units", "nm")
             IN  Return(setitem(t6, path \o "/wavelength_range", wavelength_range))

\* [MIN_WAVELENGTH] + detector_changes[::-1] + [MAX_WAVELENGTH]
wavelength_ranges_unreversed(detector_changes) ==
    <<MIN_WAVELENGTH>> \o detector_changes \o <<MAX_WAVELENGTH>>
wavelength_ranges_of(detector_changes) ==
    <<MIN_WAVELENGTH>> \o Reverse(detector_changes) \o <<MAX_WAVELENGTH>>

read_detectors(metadata) ==
    IF ~InRange(metadata, 43) THEN Raise
    ELSE
    LET detector_slits == parse_detector_line(getitem(metadata, 31), "id")
        detector_times == parse_detector_line(getitem(metadata, 32), "float")
        detector_gains == parse_detector_line(getitem(metadata, 35), "float")
        line43 == getitem(metadata, 43)
    IN  IF \/ ~detector_times.ok
           \/ ~detector_gains.ok
           \/ \E i \in 1..Len(line43) : ~float_word(line43[i]).ok
        THEN Raise
        ELSE
        LET detector_changes == [i \in 1..Len(line43) |-> float_word(line43[i]).val]
            wavelength_ranges == wavelength_ranges_of(detector_changes)
        IN  IF \/ ~InRange(detector_slits.val, 2)
               \/ ~InRange(detector_times.val, 2)
               \/ ~InRange(detector_gains.val, 1)
               \/ ~InRange(wavelength_ranges, 3)
            THEN Raise
            ELSE
            LET pmt == convert_detector_to_template(
                           "PMT", getitem(detector_slits.val, 2),
                           getitem(detector_times.val, 2), <<>>, 2,
                           <<getitem(wavelength_ranges, 0), getitem(wavelength_ranges, 1)>>)
                det(name, idx) == convert_detector_to_template(
                           name, getitem(detector_slits.val, idx),
                           getitem(detector_times.val, idx),
                           <<getitem(detector_gains.val, idx)>>, idx,
                           <<getitem(wavelength_ranges, 2 - idx),
                             getitem(wavelength_ranges, 3 - idx)>>)
                pbs == det("PbS", 1)
                ingaas == det("InGaAs", 0)
            IN  IF ~pmt.ok \/ ~pbs.ok \/ ~ingaas.ok THEN Raise
                ELSE Return(update(update(pmt.val, pbs.val), ingaas.val))

-----------------------------------------------------------------------------
(* reader.py: parse_asc *)

\* One METADATA_MAP entry (lines 199-211): the value to set, nothing to set
\* (with a warning), or the IndexError of metadata[val].
Set(v) == [ok |-> TRUE, set |-> TRUE, val |-> v]
Warn   == [ok |-> TRUE, set |-> FALSE]

eval_rule_other_raises(val, metadata) ==
    IF "int" \in DOMAIN val
    THEN IF InRange(metadata, val.int) THEN Set(getitem(metadata, val.int)) ELSE Raise
    ELSE IF "str" \in DOMAIN val THEN Set(val.str)
    ELSE IF "fn" \in DOMAIN val THEN Set(mpars_call(val.fn, metadata))
    ELSE Raise
eval_rule(val, metadata) ==
    IF "int" \in DOMAIN val
    THEN IF InRange(metadata, val.int) THEN Set(getitem(metadata, val.int)) ELSE Raise
    ELSE IF "str" \in DOMAIN val THEN Set(val.str)
    ELSE IF "fn" \in DOMAIN val THEN Set(mpars_call(val.fn, metadata))
    ELSE Warn

RECURSIVE eval_rules(_, _, _, _)
eval_rules(map, i, metadata, t) ==
    IF i > Len(map) THEN Return(t)
    ELSE LET r == eval_rule(map[i].val, metadata)
         IN  IF ~r.ok THEN Raise
             ELSE eval_rules(map, i + 1, metadata,
                             IF r.set THEN setitem(t, map[i].path, r.val) ELSE t)

\* An .asc file: the lines before the "#DATA" line (all lines when there is
\* none) and the table after it.  pd.read_csv raises EmptyDataError when
\* nothing follows.
AscFile(preamble, marker, rows) == [preamble |-> preamble, marker |-> marker, rows |-> rows]

read_csv_raises(content) == ~content.marker \/ content.rows = <<>>

parse_asc_with(map, content) ==
    IF read_csv_raises(content) THEN Raise
    ELSE LET rules == eval_rules(map, 1, content.preamble, EmptyDict)
             dets  == read_detectors(content.preamble)
             data  == data_to_template(content.rows)
         IN  IF ~rules.ok \/ ~dets.ok \/ ~data.ok THEN Raise
             ELSE Return(update(update(rules.val, dets.val), data.val))

-----------------------------------------------------------------------------
(* The .asc files and extraction maps parse_asc is run on *)

\* A preamble of n lines; the lines the reader addresses (0-based indices
\* 8, 31, 32, 35, 43) are given, the others are empty.
Preamble(n, l8, l31, l32, l35, l43) ==
    [i \in 1..n |->
        LET k == i - 1
        IN  CASE k = 8  -> l8
              [] k = 31 -> l31
              [] k = 32 -> l32
              [] k = 35 -> l35
              [] k = 43 -> l43
              [] OTHER  -> <<>>]

SampleLine == <<W(Txt("sample1"))>>

SlitLines == {
    << <<Num(3350), Txt("servo")>>, <<Num(860), Txt("servo")>>, W(Num(2)) >>,
    << W(Txt("servo")), W(Txt("auto")), W(Txt("servo")) >>,
    << W(Txt("servo")), W(Num(2)) >> }

TimeLines == {
    << W(Num(1)), <<Num(860), Num(2)>>, W(Num(3)) >>,
    << W(Num(1)), W(Txt("off")), W(Num(3)) >> }

GainLines == {
    << W(Num(5)), W(Num(6)), W(Num(7)) >>,
    << W(Num(5)) >> }

Changes1 == {860, 900}
Changes0 == {320, 860}

ChangeLines ==
    { << W(Num(c0)), W(Num(c1)) >> : c0 \in Changes1, c1 \in Changes0 }
    \cup { << W(Num(860)) >>,
           << W(Num(900)), W(Num(860)), W(Num(320)) >>,
           << W(Num(860)), <<Num(320), Num(1)>> >> }

PreambleLengths == {5, 9, 44}

Tables == {
    [marker |-> TRUE,  rows |-> << <<300, 95, 1>>, <<301, 94, 2>> >>],
    [marker |-> TRUE,  rows |-> << <<300>> >>],
    [marker |-> TRUE,  rows |-> <<>>],
    [marker |-> FALSE, rows |-> <<>>] }

AscFiles ==
    { AscFile(Preamble(n, SampleLine, l31, l32, l35, l43), tb.marker, tb.rows) :
        n \in PreambleLengths, l31 \in SlitLines, l32 \in TimeLines,
        l35 \in GainLines, l43 \in ChangeLines, tb \in Tables }

\* Maps with a rule that is neither int, str nor function (the else branch of
\* lines 207-211), and with an index past the preamble.
MAP_WITH_OTHER == <<
    Entry("/ENTRY[entry]/experiment_identifier", OtherRule("NoneType")),
    Entry("/ENTRY[entry]/SAMPLE[sample]/name", IntRule(8)),
    Entry("/ENTRY[entry]/instrument/SOURCE[source]/type", StrRule("D2")),
    Entry("/ENTRY[entry]/start_time", FnRule("read_start_date")) >>

MAP_PAST_END == <<
    Entry("/ENTRY[entry]/instrument/SOURCE[source]/type", StrRule("D2")),
    Entry("/ENTRY[entry]/title", IntRule(47)),
    Entry("/ENTRY[entry]/start_time", FnRule("read_start_date")) >>

MetadataMaps == {METADATA_MAP, MAP_WITH_OTHER, MAP_PAST_END}

-----------------------------------------------------------------------------
(* parse_asc, step by step *)

AscIdle ==
    /\ asc_pc = "idle" /\ asc_map = <<>> /\ asc_file = AscFile(<<>>, FALSE, <<>>)
    /\ asc_i = 0 /\ asc_metadata = <<>> /\ asc_template = EmptyDict
    /\ asc_warnings = 0

AscInit ==
    /\ asc_pc = "open"
    /\ asc_map \in MetadataMaps
    /\ asc_file \in AscFiles
    /\ asc_i = 0
    /\ asc_metadata = <<>>
    /\ asc_template = EmptyDict
    /\ asc_warnings = 0

\* lines 185-197: split the file at "#DATA", read the table
AscOpen ==
    /\ asc_pc = "open"
    /\ IF read_csv_raises(asc_file)
       THEN /\ asc_pc' = "raised"
            /\ UNCHANGED <<asc_i, asc_metadata>>
       ELSE /\ asc_pc' = IF asc_map = <<>> THEN "detectors" ELSE "rules"
            /\ asc_i' = 1
            /\ asc_metadata' = asc_file.preamble
    /\ UNCHANGED <<asc_map, asc_file, asc_template, asc_warnings>>

\* lines 199-211: one entry of the map
AscRule ==
    /\ asc_pc = "rules"
    /\ LET path == asc_map[asc_i].path
           r    == eval_rule(asc_map[asc_i].val, asc_metadata)
       IN  IF ~r.ok
           THEN /\ asc_pc' = "raised"
                /\ UNCHANGED <<asc_i, asc_template, asc_warnings>>
           ELSE /\ asc_pc' = IF asc_i = Len(asc_map) THEN "detectors" ELSE "rules"
                /\ asc_i' = asc_i + 1
                /\ asc_template' = IF r.set THEN setitem(asc_template, path, r.val)
                                   ELSE asc_template
                /\ asc_warnings' = IF r.set THEN asc_warnings ELSE asc_warnings + 1
    /\ UNCHANGED <<asc_map, asc_file, asc_metadata>>

\* line 213
AscDetectors ==
    /\ asc_pc = "detectors"
    /\ LET r == read_detectors(asc_metadata)
       IN  IF ~r.ok
           THEN asc_pc' = "raised" /\ UNCHANGED asc_template
           ELSE asc_pc' = "data" /\ asc_template' = update(asc_template, r.val)
    /\ UNCHANGED <<asc_map, asc_file, asc_i, asc_metadata, asc_warnings>>

\* lines 214-216
AscData ==
    /\ asc_pc = "data"
    /\ LET r == data_to_template(asc_file.rows)
       IN  IF ~r.ok
           THEN asc_pc' = "raised" /\ UNCHANGED asc_template
           ELSE asc_pc' = "done" /\ asc_template' = update(asc_template, r.val)
    /\ UNCHANGED <<asc_map, asc_file, asc_i, asc_metadata, asc_warnings>>

-----------------------------------------------------------------------------
(* Paths of input files, os.path.splitext, sorted *)

MaxFiles == 2

RECURSIVE rfind(_, _)
\* str.rfind of one token: the last position holding it, 0 when there is none
rfind(p, tok) ==
    IF p = <<>> THEN 0
    ELSE IF Last(p) = tok THEN Len(p) ELSE rfind(SubSeq(p, 1, Len(p) - 1), tok)

RECURSIVE join(_)
\* "".join(tokens)
join(p) == IF p = <<>> THEN "" ELSE Head(p) \o join(Tail(p))

\* os.path.splitext(p)[1]: from the last dot of the last component, unless
\* that component has only dots before it
splitext(p) ==
    LET sepIndex == rfind(p, "/")
        dotIndex == rfind(p, ".")
    IN  IF dotIndex > sepIndex /\ \E k \in sepIndex + 1 .. dotIndex - 1 : p[k] # "."
        THEN join(SubSeq(p, dotIndex, Len(p)))
        ELSE ""

\* The extension strings that occur, in the order of Python's str comparison
ExtensionOrder == <<"", ".asc", ".csv", ".json", ".yaml", ".yml">>
str_rank(ext) == CHOOSE i \in 1..Len(ExtensionOrder) : ExtensionOrder[i] = ext

\* sorted(file_paths, key=lambda f: os.path.splitext(f)[1]): stable
RECURSIVE insert_by_key(_, _)
insert_by_key(x, s) ==
    IF s = <<>> THEN <<x>>
    ELSE IF str_rank(splitext(Last(s))) <= str_rank(splitext(x)) THEN Append(s, x)
    ELSE Append(insert_by_key(x, SubSeq(s, 1, Len(s) - 1)), Last(s))

RECURSIVE sort_by_extension(_)
sort_by_extension(paths) ==
    IF paths = <<>> THEN <<>>
    ELSE insert_by_key(Last(paths), sort_by_extension(SubSeq(paths, 1, Len(paths) - 1)))

sorted_unsorted(paths) == paths
sorted(paths) == sort_by_extension(paths)

-----------------------------------------------------------------------------
(* reader.py: parse_json, parse_yml, TransmissionReader *)

\* A file's content is [asc |-> AscFile], [map |-> the mapping a json/yaml
\* document holds, flattened] or [garbage |-> TRUE].
parse_asc(fsys, file_path) ==
    IF "asc" \in DOMAIN fsys[file_path]
    THEN parse_asc_with(METADATA_MAP, fsys[file_path].asc)
    ELSE Raise

parse_json(fsys, file_path) ==
    IF "map" \in DOMAIN fsys[file_path] THEN Return(fsys[file_path].map) ELSE Raise

\* flatten_and_replace with the empty CONVERT_DICT and REPLACE_NESTED
parse_yml(fsys, file_path) ==
    IF "map" \in DOMAIN fsys[file_path] THEN Return(fsys[file_path].map) ELSE Raise

supported_nxdls == {"NXtransmission"}

extensions_with_csv ==
    ".asc" :> "parse_asc" @@ ".json" :> "parse_json" @@ ".yml" :> "parse_yml"
    @@ ".yaml" :> "parse_yml" @@ ".csv" :> "parse_json"
extensions ==
    ".asc" :> "parse_asc" @@ ".json" :> "parse_json" @@ ".yml" :> "parse_yml"
    @@ ".yaml" :> "parse_yml"

call_parser(name, fsys, file_path) ==
    CASE name = "parse_asc"  -> parse_asc(fsys, file_path)
      [] name = "parse_json" -> parse_json(fsys, file_path)
      [] name = "parse_yml"  -> parse_yml(fsys, file_path)

\* lines 266-272
read_header(t) ==
    LET t1 == setitem(t, "/@default", "entry")
        t2 == setitem(t1, "/ENTRY[entry]/@default", "data")
        t3 == setitem(t2, "/ENTRY[entry]/definition", "NXtransmission")
        t4 == setitem(t3, "/ENTRY[entry]/definition/@version", "v2022.06")
    IN  setitem(t4, "/ENTRY[entry]/definition/@url",
                "https://fairmat-experimental.github.io/nexus-fairmat-proposal/"
                \o "50433d9039b3f33299bab338998acb5335cd8951/index.html")

\* line 287: template.update(parsed)
merge_replacing(t, parsed) == parsed
merge(t, parsed) == update(t, parsed)

\* lines 276-287: one file of the loop
read_file(fsys, t, file_path) ==
    LET extension == splitext(file_path)
    IN  IF extension \notin DOMAIN extensions
        THEN [ok |-> TRUE, val |-> t, what |-> "unsupported"]
        ELSE IF file_path \notin DOMAIN fsys
        THEN [ok |-> TRUE, val |-> t, what |-> "missing"]
        ELSE LET r == call_parser(extensions[extension], fsys, file_path)
             IN  IF r.ok THEN [ok |-> TRUE, val |-> merge(t, r.val), what |-> "updated"]
                 ELSE Raise

RECURSIVE read_loop(_, _, _)
read_loop(fsys, t, paths) ==
    IF paths = <<>> THEN Return(t)
    ELSE LET r == read_file(fsys, t, Head(paths))
         IN  IF r.ok THEN read_loop(fsys, r.val, Tail(paths)) ELSE Raise

\* TransmissionReader.read as a function of its inputs and the file system
read(fsys, t, paths) == read_loop(fsys, read_header(t), sorted(paths))

-----------------------------------------------------------------------------
(* The input files TransmissionReader.read is run on *)

DATA_ASC  == <<"data", ".", "asc">>
BAD_ASC   == <<"bad", ".", "asc">>
META_YML  == <<"meta", ".", "yml">>
ELN_YML   == <<"eln", ".", "yml">>
ELN_YAML  == <<"eln", ".", "yaml">>
META_JSON == <<"meta", ".", "json">>
X_CSV     == <<"x", ".", "csv">>
NOTES     == <<"run", ".", "1", "/", "notes">>

InputFiles == {DATA_ASC, BAD_ASC, META_YML, ELN_YML, ELN_YAML, META_JSON, X_CSV, NOTES}

GoodPreamble ==
    Preamble(44, SampleLine,
             << <<Num(3350), Txt("servo")>>, <<Num(860), Txt("servo")>>, W(Num(2)) >>,
             << W(Num(1)), W(Num(2)), W(Num(3)) >>,
             << W(Num(5)), W(Num(6)), W(Num(7)) >>,
             << W(Num(860)), W(Num(320)) >>)

GoodRows == << <<300, 95, 1>>, <<301, 94, 2>> >>

\* bad.asc: a preamble of five lines, shorter than the fixed indices
ShortPreamble == Preamble(5, SampleLine, <<>>, <<>>, <<>>, <<>>)

AllFiles ==
    DATA_ASC :> [asc |-> AscFile(GoodPreamble, TRUE, GoodRows)]
    @@ BAD_ASC :> [asc |-> AscFile(ShortPreamble, TRUE, GoodRows)]
    @@ META_YML :> [map |-> "/ENTRY[entry]/instrument/SOURCE[source]/type" :> "deuterium"
                            @@ "/ENTRY[entry]/operator" :> "alice"]
    @@ ELN_YML :> [map |-> "/ENTRY[entry]/operator" :> "bob"
                           @@ "/ENTRY[entry]/definition" :> "NXcustom"]
    @@ ELN_YAML :> [map |-> "/ENTRY[entry]/operator" :> "carol"]
    @@ META_JSON :> [map |-> "/ENTRY[entry]/data/type" :> "reflection"
                             @@ "/ENTRY[entry]/operator" :> "dave"]
    @@ X_CSV :> [map |-> "/ENTRY[entry]/operator" :> "erin"]
    @@ NOTES :> [map |-> "/ENTRY[entry]/operator" :> "frank"]

\* The files that may be missing on disk
MaybeMissing == {DATA_ASC, META_YML}

FileSystems ==
    { [f \in InputFiles \ gone |-> AllFiles[f]] : gone \in SUBSET MaybeMissing }

\* Templates handed to read: empty, a skeleton of unfilled paths, and one
\* holding values already
Templates ==
    { EmptyDict,
      "/ENTRY[entry]/definition" :> None @@ "/ENTRY[entry]/operator" :> None
          @@ "/ENTRY[entry]/data/wavelength" :> None,
      "/@default" :> "old" @@ "/ENTRY[entry]/extra" :> "kept" }

SeqsUpTo(S, n) == UNION { [1..k -> S] : k \in 0..n }

-----------------------------------------------------------------------------
(* TransmissionReader.read, step by step *)

ReadIdle ==
    /\ pc = "idle" /\ fs = <<>> /\ file_paths = <<>> /\ template0 = EmptyDict
    /\ template = EmptyDict /\ sorted_paths = <<>> /\ log = <<>>

ReadInit ==
    /\ pc = "start"
    /\ fs \in FileSystems
    /\ file_paths \in SeqsUpTo(InputFiles, MaxFiles)
    /\ template0 \in Templates
    /\ template = template0
    /\ sorted_paths = <<>>
    /\ log = <<>>

\* lines 266-274: the fixed entries, then the sort
ReadBegin ==
    /\ pc = "start"
    /\ template' = read_header(template)
    /\ sorted_paths' = sorted(file_paths)
    /\ pc' = IF file_paths = <<>> THEN "done" ELSE "loop"
    /\ UNCHANGED <<fs, file_paths, template0, log>>

\* lines 275-287: one iteration of the loop; line 289 after the last
ReadFile ==
    /\ pc = "loop"
    /\ LET file_path == sorted_paths[Len(log) + 1]
           r == read_file(fs, template, file_path)
       IN  IF ~r.ok
           THEN /\ pc' = "raised"
                /\ log' = Append(log, <<file_path, "raised">>)
                /\ UNCHANGED template
           ELSE /\ pc' = IF Len(log) + 1 = Len(sorted_paths) THEN "done" ELSE "loop"
                /\ log' = Append(log, <<file_path, r.what>>)
                /\ template' = r.val
    /\ UNCHANGED <<fs, file_paths, template0, sorted_paths>>

-----------------------------------------------------------------------------
(* helpers (imported by convert.py, its source is not part of the files    *)
(* modelled here): the tag without its XML namespace, and the two forms of *)
(* a class name, "NXentry" -> "ENTRY" and "NXentry" -> "entry".            *)

\* an element's tag is <<namespace, local name>>
NS == "{http://definition.nexusformat.org/nxdl/3.1}"
Tag(local) == <<NS, local>>
remove_namespace_from_tag(tag) == tag[2]

convert_nexus_to_caps(type) ==
    CASE type = "NXentry" -> "ENTRY" [] type = "NXdata" -> "DATA"
convert_nexus_to_suggested_name(type) ==
    CASE type = "NXentry" -> "entry" [] type = "NXdata" -> "data"

-----------------------------------------------------------------------------
(* Schema trees.  A tree is a sequence of nodes, node 1 being the group    *)
(* get_first_group returns; each node holds its tag, its attributes and    *)
(* its parent's position (children are in the order of their positions).   *)

MaxNodes == 3

Node(tag, attrib, parent) == [tag |-> Tag(tag), attrib |-> attrib, parent |-> parent]

RootShapes == {
    [tag |-> "group", attrib |-> "type" :> "NXentry"],
    [tag |-> "group", attrib |-> "name" :> "scan" @@ "type" :> "NXentry"] }

NodeShapes == {
    [tag |-> "group",     attrib |-> "type" :> "NXdata"],
    [tag |-> "field",     attrib |-> "name" :> "x" @@ "units" :> "NX_LENGTH"],
    [tag |-> "field",     attrib |-> "name" :> "x"],
    [tag |-> "field",     attrib |-> "name" :> "y" @@ "units" :> "NX_UNITLESS"],
    [tag |-> "attribute", attrib |-> "name" :> "units"],
    [tag |-> "attribute", attrib |-> "name" :> "x"],
    [tag |-> "doc",       attrib |-> <<>>] }

Trees ==
    UNION { { [i \in 1..n |-> IF i = 1 THEN Node(r.tag, r.attrib, 0)
                              ELSE Node(sh[i].tag, sh[i].attrib, par[i])] :
                r \in RootShapes,
                sh \in [2..n -> NodeShapes],
                par \in { f \in [2..n -> 1..n] : \A i \in 2..n : f[i] < i } } :
            n \in 1..MaxNodes }

\* the children of node n as frames <<child, path>>, first child first
RECURSIVE child_frames(_, _, _, _)
child_frames(t, n, path, from) ==
    IF from > Len(t) THEN <<>>
    ELSE IF t[from].parent = n
         THEN <<<<from, path>>>> \o child_frames(t, n, path, from + 1)
         ELSE child_frames(t, n, path, from + 1)

-----------------------------------------------------------------------------
(* convert.py: generate_template_from_nxdl *)

\* lines 54-63
suffix_of(tag, attrib) ==
    LET suffix == IF "name" \in DOMAIN attrib THEN attrib["name"]
                  ELSE IF "type" \in DOMAIN attrib
                  THEN convert_nexus_to_caps(attrib["type"]) \o "["
                       \o convert_nexus_to_suggested_name(attrib["type"]) \o "]"
                  ELSE ""
    IN  IF tag = "attribute" THEN "@" \o suffix ELSE suffix

\* lines 67-73: the entries one node adds
node_entries(template_, tag, attrib, path) ==
    LET t1 == IF tag \in {"field", "attribute"} THEN setitem(template_, path, None)
              ELSE template_
    IN  IF tag = "field" /\ "units" \in DOMAIN attrib /\ attrib["units"] # "NX_UNITLESS"
        THEN setitem(t1, path \o "/@units", None)
        ELSE t1

\* line 51
is_pruned_never(tag) == FALSE
is_pruned(tag) == tag = "doc"

WalkIdle ==
    /\ walk_pc = "idle" /\ tree = <<>> /\ stack = <<>> /\ acc = EmptyDict

\* the first call: path is None, root is the first group, path = ""
WalkInit ==
    /\ walk_pc = "walking"
    /\ tree \in Trees
    /\ stack = <<<<1, "">>>>
    /\ acc = EmptyDict

\* one call of generate_template_from_nxdl(root, template, path): the node's
\* own entries; the calls for its children are put on the stack
walk_step(t, stk, template_) ==
    LET root == t[Head(stk)[1]]
        tag  == remove_namespace_from_tag(root.tag)
        path == Head(stk)[2] \o "/" \o suffix_of(tag, root.attrib)
    IN  IF is_pruned(tag)
        THEN [stack |-> Tail(stk), acc |-> template_]
        ELSE [stack |-> child_frames(t, Head(stk)[1], path, 1) \o Tail(stk),
              acc   |-> node_entries(template_, tag, root.attrib, path)]

WalkNode ==
    /\ walk_pc = "walking"
    /\ LET r == walk_step(tree, stack, acc)
       IN  /\ acc' = r.acc
           /\ stack' = r.stack
           /\ walk_pc' = IF r.stack = <<>> THEN "done" ELSE "walking"
    /\ UNCHANGED tree

RECURSIVE walk_all(_, _, _)
walk_all(t, stk, template_) ==
    IF stk = <<>> THEN template_
    ELSE LET r == walk_step(t, stk, template_) IN walk_all(t, r.stack, r.acc)

\* the whole first call, on the first group of the document
generate_template_from_nxdl(t) == walk_all(t, <<<<1, "">>>>, EmptyDict)

-----------------------------------------------------------------------------
(* convert.py: get_names_of_all_readers *)

sep == "/"

\* sub in s
contains(s, sub) ==
    \E i \in 1 .. Len(s) - Len(sub) + 1 : SubSeq(s, i, i + Len(sub) - 1) = sub

\* s.rindex(sub), 0-based; only used where sub occurs
rindex(s, sub) ==
    LET at == {i \in 1 .. Len(s) - Len(sub) + 1 : SubSeq(s, i, i + Len(sub) - 1) = sub}
    IN  (CHOOSE i \in at : \A j \in at : j <= i) - 1

\* s[a:b], 0-based
slice(s, a, b) == SubSeq(s, a + 1, b)

\* line 91
path_prefix_of(dir) == IF dir # <<>> THEN dir \o <<sep>> ELSE <<>>

\* line 92: one path per subdirectory of readers/ that holds a reader.py
glob_readers(dir, dirs) ==
    { path_prefix_of(dir) \o <<"readers", sep>> \o d \o <<sep, "reader.py">> : d \in dirs }

\* line 95
is_base(f) == contains(f, <<sep, "base", sep>>)

\* lines 96-98
reader_name(f) ==
    LET index_of_readers_folder_name == rindex(f, <<"readers", sep>>) + Len(<<"readers", sep>>)
        index_of_last_path_sep == rindex(f, <<sep>>)
    IN  slice(f, index_of_readers_folder_name, index_of_last_path_sep)

\* Installation directories (os.path.dirname(__file__)) and reader directories
Dirnames == {
    <<>>,
    <<sep, "opt", sep, "nexusparser", sep, "tools", sep, "dataconverter">>,
    <<sep, "srv", sep, "base", sep, "nexusparser", sep, "tools", sep, "dataconverter">>,
    <<"base", sep, "dataconverter">> }

ReaderDirs == { <<"base">>, <<"example">>, <<"transmission">>, <<"my", "readers">> }

RdIdle ==
    /\ rd_pc = "idle" /\ dirname = <<>> /\ subdirs = {} /\ files = {}
    /\ all_readers = <<>>

RdInit ==
    /\ rd_pc = "glob"
    /\ dirname \in Dirnames
    /\ subdirs \in SUBSET ReaderDirs
    /\ files = {}
    /\ all_readers = <<>>

\* lines 91-93
RdGlob ==
    /\ rd_pc = "glob"
    /\ files' = glob_readers(dirname, subdirs)
    /\ rd_pc' = IF subdirs = {} THEN "done" ELSE "loop"
    /\ UNCHANGED <<dirname, subdirs, all_readers>>

\* lines 94-98: one file of the loop, in the order glob gave them (any order)
RdFile ==
    /\ rd_pc = "loop"
    /\ \E f \in files :
        /\ all_readers' = IF ~is_base(f) THEN Append(all_readers, reader_name(f))
                          ELSE all_readers
        /\ files' = files \ {f}
        /\ rd_pc' = IF files = {f} THEN "done" ELSE "loop"
    /\ UNCHANGED <<dirname, subdirs>>

-----------------------------------------------------------------------------
(* convert.py: convert *)

\* re.search("NX[a-z_]*(?=.nxdl.xml)", nxdl).group(0) on a tokenised path:
\* "NX", then tokens of [a-z_], followed by ".nxdl.xml"; None when nothing
\* matches
LowerTokens == {"transmission", "ellipsometry", "mx", "broken", "defs", "old",
                "schema", "v", "_"}

match_end(p, i) ==
    {j \in i .. Len(p) - 1 :
        /\ \A k \in i + 1 .. j : p[k] \in LowerTokens
        /\ p[j + 1] = ".nxdl.xml"}

re_search_nxdl_name(p) ==
    LET starts == {i \in 1..Len(p) : p[i] = "NX" /\ match_end(p, i) # {}}
    IN  IF starts = {} THEN Raise
        ELSE LET i == CHOOSE a \in starts : \A b \in starts : a <= b
                 j == CHOOSE a \in match_end(p, i) : \A b \in match_end(p, i) : b <= a
             IN  Return(join(SubSeq(p, i, j)))

\* The schema documents on disk: a tree, or text ET.parse rejects
SchemaTree == <<
    Node("group", "type" :> "NXentry", 0),
    Node("doc", <<>>, 1),
    Node("field", "name" :> "definition", 1),
    Node("group", "type" :> "NXdata", 1),
    Node("field", "name" :> "wavelength" @@ "units" :> "NX_LENGTH", 4) >>

SchemaDocs ==
    <<"NX", "transmission", ".nxdl.xml">> :> [tree |-> SchemaTree]
    @@ <<"defs", sep, "NX", "transmission", ".nxdl.xml">> :> [tree |-> SchemaTree]
    @@ <<"NX", "ellipsometry", ".nxdl.xml">> :> [tree |-> SchemaTree]
    @@ <<"NX", "old", sep, "NX", "mx", ".nxdl.xml">> :> [tree |-> SchemaTree]
    @@ <<"NX", "transmission", "_", "v", "2", ".nxdl.xml">> :> [tree |-> SchemaTree]
    @@ <<"schema", ".xml">> :> [tree |-> SchemaTree]
    @@ <<"NX", "broken", ".nxdl.xml">> :> [garbage |-> TRUE]

ConvertInputs == {DATA_ASC, BAD_ASC, META_YML, X_CSV}

\* line 151
is_supported_always(name) == TRUE
is_supported(name) == name \in supported_nxdls

CvIdle ==
    /\ cv_pc = "idle" /\ nxdl = <<>> /\ generate_template = FALSE
    /\ input_file = <<>> /\ nxdl_name = None /\ cv_data = EmptyDict /\ trace = <<>>

CvInit ==
    /\ cv_pc = "parse"
    /\ nxdl \in DOMAIN SchemaDocs
    /\ generate_template \in BOOLEAN
    /\ input_file \in SeqsUpTo(ConvertInputs, MaxFiles)
    /\ nxdl_name = None
    /\ cv_data = EmptyDict
    /\ trace = <<>>

\* lines 135-142
CvTemplate ==
    /\ cv_pc = "parse"
    /\ IF "tree" \notin DOMAIN SchemaDocs[nxdl]
       THEN cv_pc' = "raised" /\ trace' = Append(trace, "ParseError") /\ UNCHANGED cv_data
       ELSE /\ cv_data' = generate_template_from_nxdl(SchemaDocs[nxdl].tree)
            /\ IF generate_template
               THEN cv_pc' = "returned" /\ trace' = Append(trace, "logger.info(template)")
               ELSE cv_pc' = "get_reader" /\ trace' = trace
    /\ UNCHANGED <<nxdl, generate_template, input_file, nxdl_name>>

\* lines 145-150
CvReader ==
    /\ cv_pc = "get_reader"
    /\ LET m == re_search_nxdl_name(nxdl)
       IN  IF ~m.ok
           THEN /\ cv_pc' = "raised"
                /\ trace' = trace \o <<"get_reader", "AttributeError">>
                /\ UNCHANGED nxdl_name
           ELSE /\ cv_pc' = "check"
                /\ trace' = Append(trace, "get_reader")
                /\ nxdl_name' = m.val
    /\ UNCHANGED <<nxdl, generate_template, input_file, cv_data>>

\* lines 151-154
CvRead ==
    /\ cv_pc = "check"
    /\ IF ~is_supported(nxdl_name)
       THEN /\ cv_pc' = "raised"
            /\ trace' = Append(trace, "Exception: NXDL not supported")
            /\ UNCHANGED cv_data
       ELSE LET r == read(AllFiles, cv_data, input_file)
            IN  IF ~r.ok
                THEN /\ cv_pc' = "raised"
                     /\ trace' = trace \o <<"read", "raised in read">>
                     /\ UNCHANGED cv_data
                ELSE /\ cv_pc' = "validate"
                     /\ trace' = Append(trace, "read")
                     /\ cv_data' = r.val
    /\ UNCHANGED <<nxdl, generate_template, input_file, nxdl_name>>

\* line 156
CvValidate ==
    /\ cv_pc = "validate"
    /\ cv_pc' = "write"
    /\ trace' = Append(trace, "validate_data_dict")
    /\ UNCHANGED <<nxdl, generate_template, input_file, nxdl_name, cv_data>>

\* lines 159-161
CvWrite ==
    /\ cv_pc = "write"
    /\ cv_pc' = "done"
    /\ trace' = Append(trace, "Writer.write")
    /\ UNCHANGED <<nxdl, generate_template, input_file, nxdl_name, cv_data>>

-----------------------------------------------------------------------------
(* Specifications *)

\* parse_asc on one file under one extraction map
InitAsc == AscInit /\ ReadIdle /\ WalkIdle /\ RdIdle /\ CvIdle
NextAsc ==
    \/ AscOpen /\ UNCHANGED <<readVars, walkVars, rdVars, cvVars>>
    \/ AscRule /\ UNCHANGED <<readVars, walkVars, rdVars, cvVars>>
    \/ AscDetectors /\ UNCHANGED <<readVars, walkVars, rdVars, cvVars>>
    \/ AscData /\ UNCHANGED <<readVars, walkVars, rdVars, cvVars>>
SpecAsc == InitAsc /\ [][NextAsc]_vars

\* TransmissionReader.read on one template and one list of files
InitRead == AscIdle /\ ReadInit /\ WalkIdle /\ RdIdle /\ CvIdle
NextRead ==
    \/ ReadBegin /\ UNCHANGED <<ascVars, walkVars, rdVars, cvVars>>
    \/ ReadFile /\ UNCHANGED <<ascVars, walkVars, rdVars, cvVars>>
SpecRead == InitRead /\ [][NextRead]_vars

\* generate_template_from_nxdl on one schema tree
InitWalk == AscIdle /\ ReadIdle /\ WalkInit /\ RdIdle /\ CvIdle
NextWalk == WalkNode /\ UNCHANGED <<ascVars, readVars, rdVars, cvVars>>
SpecWalk == InitWalk /\ [][NextWalk]_vars

\* get_names_of_all_readers on one installation
InitReaders == AscIdle /\ ReadIdle /\ WalkIdle /\ RdInit /\ CvIdle
NextReaders ==
    \/ RdGlob /\ UNCHANGED <<ascVars, readVars, walkVars, cvVars>>
    \/ RdFile /\ UNCHANGED <<ascVars, readVars, walkVars, cvVars>>
SpecReaders == InitReaders /\ [][NextReaders]_vars

\* one run of convert
InitConvert == AscIdle /\ ReadIdle /\ WalkIdle /\ RdIdle /\ CvInit
NextConvert ==
    \/ CvTemplate /\ UNCHANGED <<ascVars, readVars, walkVars, rdVars>>
    \/ CvReader /\ UNCHANGED <<ascVars, readVars, walkVars, rdVars>>
    \/ CvRead /\ UNCHANGED <<ascVars, readVars, walkVars, rdVars>>
    \/ CvValidate /\ UNCHANGED <<ascVars, readVars, walkVars, rdVars>>
    \/ CvWrite /\ UNCHANGED <<ascVars, readVars, walkVars, rdVars>>
SpecConvert == InitConvert /\ [][NextConvert]_vars

\* any one of the operations
Init == InitAsc \/ InitRead \/ InitWalk \/ InitReaders \/ InitConvert
Next == NextAsc \/ NextRead \/ NextWalk \/ NextReaders \/ NextConvert
Spec == Init /\ [][Next]_vars

-----------------------------------------------------------------------------
(* Properties *)

IndexPermutations(n) ==
    {f \in [1..n -> 1..n] : \A i, j \in 1..n : i # j => f[i] # f[j]}

Reordered(s, f) == [i \in 1..Len(s) |-> s[f[i]]]

\* f keeps the files of one extension in the order they have in s
KeepsOrderWithinExtension(s, f) ==
    \A i, j \in 1..Len(s) :
        (i < j /\ splitext(s[f[i]]) = splitext(s[f[j]])) => f[i] < f[j]

\* what the finished run of read gave: the template returned, or an exception
ReadOutcome == IF pc = "done" THEN Return(template) ELSE Raise

\* C1 (as amended): read gives the same result for every reordering of the
\* list of files that keeps files of the same extension in their order (the
\* sort is by extension only, and stable).
C1_OrderIndependentAcrossExtensions ==
    pc \in {"done", "raised"} =>
        \A f \in IndexPermutations(Len(file_paths)) :
            KeepsOrderWithinExtension(file_paths, f) =>
                read(fs, template0, Reordered(file_paths, f)) = ReadOutcome

\* C1 (as claimed): read gives the same template for every permutation of
\* the list of files.
C1_OrderIndependentAnyPermutation ==
    pc \in {"done", "raised"} =>
        \A f \in IndexPermutations(Len(file_paths)) :
            read(fs, template0, Reordered(file_paths, f)) = ReadOutcome

\* a run on [meta.yml, data.asc], both on disk, which the sort reorders
C1_Witness ==
    /\ pc = "done"
    /\ file_paths = <<META_YML, DATA_ASC>>
    /\ log = << <<DATA_ASC, "updated">>, <<META_YML, "updated">> >>

\* C2: read never removes keys: in every state of read, every key of the
\* template it was given is a key of the template.
C2_KeysNeverRemoved ==
    pc # "idle" => DOMAIN template0 \subseteq DOMAIN template

\* a finished run on a non-empty template that merged two files
C2_Witness ==
    /\ pc = "done"
    /\ template0 # EmptyDict
    /\ Len(log) = 2
    /\ \A i \in 1..2 : log[i][2] = "updated"

\* C3: given one .asc and one .yml file in either order, the .asc file is
\* processed first and the .yml file second, and every path both populate
\* holds the .yml file's value at the end.
C3_AscThenYmlLastWriterWins ==
    \A a, y \in InputFiles :
        ( /\ splitext(a) = ".asc" /\ splitext(y) = ".yml"
          /\ file_paths \in {<<a, y>>, <<y, a>>}
          /\ pc # "start" ) =>
            /\ sorted_paths = <<a, y>>
            /\ \A i \in 1..Len(log) : log[i][1] = sorted_paths[i]
            /\ (pc = "done" /\ log[1][2] = "updated" /\ log[2][2] = "updated") =>
                   \A k \in DOMAIN parse_asc(fs, a).val \cap DOMAIN parse_yml(fs, y).val :
                       template[k] = parse_yml(fs, y).val[k]

\* [meta.yml, data.asc]: both set SOURCE[source]/type, the .yml value stays
C3_Witness ==
    /\ pc = "done"
    /\ file_paths = <<META_YML, DATA_ASC>>
    /\ log = << <<DATA_ASC, "updated">>, <<META_YML, "updated">> >>
    /\ template["/ENTRY[entry]/instrument/SOURCE[source]/type"] = "deuterium"

SupportedExtensions == {".asc", ".json", ".yml", ".yaml"}

OnlyUnsupportedFiles ==
    /\ file_paths # <<>>
    /\ \A i \in 1..Len(file_paths) : splitext(file_paths[i]) \notin SupportedExtensions

FixedEntries ==
    "/@default" :> "entry"
    @@ "/ENTRY[entry]/@default" :> "data"
    @@ "/ENTRY[entry]/definition" :> "NXtransmission"
    @@ "/ENTRY[entry]/definition/@version" :> "v2022.06"
    @@ "/ENTRY[entry]/definition/@url" :>
         "https://fairmat-experimental.github.io/nexus-fairmat-proposal/50433d9039b3f33299bab338998acb5335cd8951/index.html"

\* C4 (as amended): files with an unsupported extension are skipped with a
\* warning, read does not raise, and the template returned is the template
\* passed in with the five fixed entries set (added or overwritten) and
\* nothing else changed.
C4_UnsupportedSkipped ==
    (OnlyUnsupportedFiles /\ pc # "start") =>
        /\ pc # "raised"
        /\ \A i \in 1..Len(log) : log[i][2] = "unsupported"
        /\ DOMAIN template = DOMAIN template0 \cup DOMAIN FixedEntries
        /\ \A k \in DOMAIN template :
              template[k] = IF k \in DOMAIN FixedEntries THEN FixedEntries[k]
                            ELSE template0[k]

\* C4 (as claimed): with only unsupported files the template returned is the
\* template passed in, same keys and same values.
C4_UnsupportedLeavesTemplateUnchanged ==
    (OnlyUnsupportedFiles /\ pc = "done") => template = template0

\* read([x.csv]) returned, x.csv being on disk
C4_Witness ==
    /\ pc = "done"
    /\ file_paths = <<X_CSV>>
    /\ X_CSV \in DOMAIN fs
    /\ log = << <<X_CSV, "unsupported">> >>

\* C7 (as claimed): read completes and returns a template for every list of
\* input files, a malformed .asc file included.
C7_ReadNeverRaises == pc # "raised"

-----------------------------------------------------------------------------

NotRun == {"read", "raised in read", "validate_data_dict", "Writer.write"}

\* C5: once the name derived from the schema file name is not among the
\* reader's supported_nxdls, convert is at the check or has raised, and read,
\* the validation and the writer have not run.
C5_MismatchAbortsBeforeRead ==
    (nxdl_name # None /\ nxdl_name # "NXtransmission") =>
        /\ cv_pc \in {"check", "raised"}
        /\ \A i \in 1..Len(trace) : trace[i] \notin NotRun

\* NXellipsometry.nxdl.xml with input files: convert raised at the check
C5_Witness ==
    /\ cv_pc = "raised"
    /\ nxdl_name = "NXellipsometry"
    /\ input_file # <<>>
    /\ trace = <<"get_reader", "Exception: NXDL not supported">>

-----------------------------------------------------------------------------

LocalTag(t, n) == t[n].tag[2]

RECURSIVE HasDocAncestor(_, _)
HasDocAncestor(t, n) ==
    /\ t[n].parent # 0
    /\ \/ LocalTag(t, t[n].parent) = "doc"
       \/ HasDocAncestor(t, t[n].parent)

\* the naming rule: name, else CAPS[suggested] from type; '@' for attributes
RuleSegment(t, n) ==
    LET a == t[n].attrib
        seg == IF "name" \in DOMAIN a THEN a["name"]
               ELSE IF "type" \in DOMAIN a
               THEN CASE a["type"] = "NXentry" -> "ENTRY[entry]"
                      [] a["type"] = "NXdata"  -> "DATA[data]"
               ELSE ""
    IN  IF LocalTag(t, n) = "attribute" THEN "@" \o seg ELSE seg

RECURSIVE RulePath(_, _)
RulePath(t, n) ==
    (IF t[n].parent = 0 THEN "" ELSE RulePath(t, t[n].parent)) \o "/" \o RuleSegment(t, n)

ValueNodes(t) ==
    {n \in 1..Len(t) : LocalTag(t, n) \in {"field", "attribute"} /\ ~HasDocAncestor(t, n)}

UnitsNodes(t) ==
    {n \in ValueNodes(t) :
        /\ LocalTag(t, n) = "field"
        /\ "units" \in DOMAIN t[n].attrib
        /\ t[n].attrib["units"] # "NX_UNITLESS"}

\* C6 (as amended): the keys of the template are exactly the paths, per the
\* naming rule, of the field and attribute nodes without a doc ancestor,
\* plus the @units keys; all unfilled.  Nodes with the same path share one
\* key, so there is one value key per distinct path.
C6_KeysAreNodePaths ==
    walk_pc = "done" =>
        /\ DOMAIN acc = {RulePath(tree, n) : n \in ValueNodes(tree)}
                        \cup {RulePath(tree, n) \o "/@units" : n \in UnitsNodes(tree)}
        /\ \A k \in DOMAIN acc : acc[k] = None

\* C6 (as claimed): one key for every field or attribute node without a doc
\* ancestor: the keys are those paths and there are as many value keys as
\* such nodes.
C6_OneKeyPerNode ==
    walk_pc = "done" =>
        /\ \A n \in ValueNodes(tree) : RulePath(tree, n) \in DOMAIN acc
        /\ Cardinality({k \in DOMAIN acc : \E n \in ValueNodes(tree) : k = RulePath(tree, n)})
               = Cardinality(ValueNodes(tree))

\* a finished walk of a tree where two fields have the same path, one of them
\* with units
C6_Witness ==
    /\ walk_pc = "done"
    /\ \E m, n \in ValueNodes(tree) : m # n /\ RulePath(tree, m) = RulePath(tree, n)
    /\ DOMAIN acc = {"/ENTRY[entry]/x", "/ENTRY[entry]/x/@units"}

-----------------------------------------------------------------------------

\* C8 (as claimed): the names returned are the names of the reader
\* directories other than base, each once.
C8_ReaderNamesAreDirectories ==
    rd_pc = "done" =>
        /\ Len(all_readers) = Cardinality(subdirs \ {<<"base">>})
        /\ {all_readers[i] : i \in 1..Len(all_readers)} = subdirs \ {<<"base">>}

-----------------------------------------------------------------------------

EvaluatedEntries == {j \in 1..Len(asc_map) : j < asc_i}

TwoChanges ==
    /\ Len(asc_metadata) >= 44
    /\ Len(asc_metadata[44]) = 2
    /\ \A i \in 1..2 : Len(asc_metadata[44][i]) = 1 /\ IsNum(asc_metadata[44][i][1])

\* C10: with two numbers c0 c1 on the detector-change line, the detectors are
\* PMT at DETECTOR[detector2] with [MIN_WAVELENGTH, c1], PbS at
\* DETECTOR[detector1] with [c1, c0] and InGaAs at DETECTOR[detector] with
\* [c0, MAX_WAVELENGTH].
C10_DetectorRangesContiguous ==
    (asc_pc \in {"data", "done"} /\ TwoChanges) =>
        LET c0 == asc_metadata[44][1][1].num
            c1 == asc_metadata[44][2][1].num
            p2 == "/ENTRY[entry]/instrument/DETECTOR[detector2]"
            p1 == "/ENTRY[entry]/instrument/DETECTOR[detector1]"
            p0 == "/ENTRY[entry]/instrument/DETECTOR[detector]"
        IN  /\ {p2 \o "/type", p1 \o "/type", p0 \o "/type", p2 \o "/wavelength_range",
                p1 \o "/wavelength_range", p0 \o "/wavelength_range"}
                   \subseteq DOMAIN asc_template
            /\ asc_template[p2 \o "/type"] = "PMT"
            /\ asc_template[p1 \o "/type"] = "PbS"
            /\ asc_template[p0 \o "/type"] = "InGaAs"
            /\ asc_template[p2 \o "/wavelength_range"] = <<190, c1>>
            /\ asc_template[p1 \o "/wavelength_range"] = <<c1, c0>>
            /\ asc_template[p0 \o "/wavelength_range"] = <<c0, 3350>>

\* a parsed file whose change line is "900 320"
C10_Witness ==
    /\ asc_pc = "done"
    /\ TwoChanges
    /\ asc_metadata[44] = << W(Num(900)), W(Num(320)) >>

=============================================================================
